---- MODULE Spec2Model ----
(***************************************************************************)
(* Two independent desktop utilities of the repository:                    *)
(*   scripts/waybar/mediaplayer.py   the Now-Playing Reporter (one run of  *)
(*                                   main() prints JSON for the status bar) *)
(*   scripts/fetch_clash_config.py   the Fetcher (hourly download loop)    *)
(* Python strings are modelled as sequences of one-character strings, so   *)
(* that len, slicing, split, startswith and lower are computed.            *)
(***************************************************************************)
EXTENDS Integers, Sequences, FiniteSets, TLC

VARIABLES
    \* ---- Reporter: the environment main() reads -------------------------
    busOutcome,    \* what pydbus.SessionBus() does: "ok", "ImportError", "Exception"
    listRaises,    \* whether bus.dbus.ListNames() raises
    services,      \* the bus registry in ListNames order: [name, st] records
    \* ---- Reporter: the run of main() ------------------------------------
    rpc,           \* position in main() / print_json()
    ctx,           \* "try" inside main's try body, "handler" inside an except clause
    players,       \* result of get_all_players: [h, name, status] records
    best,          \* result of choose_best_player
    info,          \* result of get_metadata_info
    restatus,      \* PlaybackStatus as re-read by get_metadata_info
    metaOutcome,   \* what reading player.Metadata gave: "unread", "raise", "empty", "dict"
    unexpected,    \* main's "except Exception" clause was entered
    data,          \* the argument of the print_json call in progress
    out,           \* lines accepted by sys.stdout.write, in order
    nFaults,       \* faults injected into json.dumps / sys.stdout so far
    nInterrupts,   \* KeyboardInterrupts delivered so far
    \* ---- pure-function harnesses ----------------------------------------
    selIn, selOut, \* choose_best_player: candidates, result
    fmtIn, fmtOut, \* format_display_text: info, result
    \* ---- Fetcher --------------------------------------------------------
    fpc,           \* position in the module-level script
    nextRun,       \* time left until the job's next_run (0: due)
    dirExists,     \* SAVE_DIRECTORY exists
    file,          \* the destination file: NoFile or its content (chunks)
    prevFile,      \* the destination file before the latest attempt
    flog,          \* lines printed by the latest download_file call
    lastStatus,    \* HTTP status of the latest attempt (0: no response)
    lastGood,      \* response body of the most recent successful fetch
    sinceStart,    \* time since the latest attempt started (saturates)
    ran            \* whether the latest run_pending call ran the job

reporterVars == <<busOutcome, listRaises, services, rpc, ctx, players, best, info,
                  restatus, metaOutcome, unexpected, data, out, nFaults, nInterrupts>>
selVars == <<selIn, selOut>>
fmtVars == <<fmtIn, fmtOut>>
fetcherVars == <<fpc, nextRun, dirExists, file, prevFile, flog, lastStatus, lastGood,
                 sinceStart, ran>>
vars == <<reporterVars, selVars, fmtVars, fetcherVars>>

-----------------------------------------------------------------------------
(* Bounds of the model *)

MaxServices == 2     \* player names ListNames returns, after the bus driver's
MaxFaults == 2       \* injected json.dumps / stdout faults per run of main()
MaxInterrupts == 1   \* KeyboardInterrupts delivered per run of main()
MaxPlayers == 3      \* candidates handed to choose_best_player on its own

-----------------------------------------------------------------------------
(* Python values and string helpers *)

None == [kind |-> "None"]

Max(S) == CHOOSE m \in S : \A x \in S : x <= m

Min2(a, b) == IF a <= b THEN a ELSE b

\* str.startswith
StartsWith(s, p) == Len(s) >= Len(p) /\ SubSeq(s, 1, Len(p)) = p

\* str.split('.')[-1]: what follows the last dot, the whole string without one
LastSegment(s) ==
    LET dots == {i \in 1..Len(s) : s[i] = "."}
    IN  IF dots = {} THEN s ELSE SubSeq(s, Max(dots) + 1, Len(s))

UpperAlpha == <<"A","B","C","D","E","F","G","H","I","J","K","L","M",
                "N","O","P","Q","R","S","T","U","V","W","X","Y","Z">>
LowerAlpha == <<"a","b","c","d","e","f","g","h","i","j","k","l","m",
                "n","o","p","q","r","s","t","u","v","w","x","y","z">>

LowerChar(c) ==
    IF \E i \in 1..Len(UpperAlpha) : UpperAlpha[i] = c
    THEN LowerAlpha[CHOOSE i \in 1..Len(UpperAlpha) : UpperAlpha[i] = c]
    ELSE c

\* str.lower
Lower(s) == [i \in 1..Len(s) |-> LowerChar(s[i])]

-----------------------------------------------------------------------------
(* Reporter: configuration, mediaplayer.py 10-17 *)

MAX_LENGTH == 40

S_spotify == <<"s","p","o","t","i","f","y">>
S_firefox == <<"f","i","r","e","f","o","x">>
S_chrome == <<"c","h","r","o","m","e">>
S_vlc == <<"v","l","c">>

\* the glyphs are opaque to the script: each is modelled by a name of its own
PLAYER_ICONS ==
    [k \in {S_spotify, S_firefox, S_chrome, S_vlc} |->
        CASE k = S_spotify -> "glyph-f1bc"
          [] k = S_firefox -> ""
          [] k = S_chrome -> ""
          [] k = S_vlc -> "glyph-f057c"]

DEFAULT_ICON == "glyph-1f3b5"

MprisPrefix == <<"o","r","g",".","m","p","r","i","s",".",
                 "M","e","d","i","a","P","l","a","y","e","r","2",".">>

ObjectPath == "/org/mpris/MediaPlayer2"

-----------------------------------------------------------------------------
(* Reporter: the functions of mediaplayer.py *)

\* a Python str value
Str(s) == [kind |-> "str", s |-> s]

\* a pydbus proxy object, bound to the registered service svc
Proxy(svc) == [kind |-> "proxy", svc |-> svc]

Raise == [kind |-> "raise"]

\* get_bus: the session bus, or None on ImportError and on any other Exception
get_bus(outcome) == IF outcome = "ok" THEN [kind |-> "bus"] ELSE None

get_player_service_name(service_name) ==
    IF StartsWith(service_name, MprisPrefix)
    THEN service_name
    ELSE MprisPrefix \o service_name

\* bus.get(name, path): a proxy of the service registered under exactly that
\* name, an exception when none is registered or it does not answer
BusGet(svcs, name, path) ==
    IF \E i \in 1..Len(svcs) : svcs[i].name = name /\ svcs[i].st # "Unreachable"
    THEN Proxy(name)
    ELSE Raise

\* player.PlaybackStatus: the status of the service the proxy is bound to
PlaybackStatus(svcs, player) ==
    LET i == CHOOSE j \in 1..Len(svcs) : svcs[j].name = player.svc
    IN  IF svcs[i].st = "StatusError" THEN Raise
        ELSE [kind |-> "str", s |-> svcs[i].st]

get_player_from_service(svcs, service_name) ==
    LET full_service_name == get_player_service_name(service_name)
        player == BusGet(svcs, full_service_name, ObjectPath)
    IN  IF player = Raise
        THEN [player |-> None, name |-> None]
        ELSE [player |-> player, name |-> service_name]

\* the body of the "for service in services" loop, from the i-th name on
RECURSIVE PlayersFrom(_, _)
PlayersFrom(svcs, i) ==
    IF i > Len(svcs) THEN <<>>
    ELSE LET service == svcs[i].name
             player_name == LastSegment(service)
             got == get_player_from_service(svcs, player_name)
             status == PlaybackStatus(svcs, got.player)
             entry ==
                 IF ~StartsWith(service, MprisPrefix) THEN <<>>
                 ELSE IF got.player = None THEN <<>>
                 ELSE IF status = Raise THEN <<>>
                 ELSE << [h |-> got.player, name |-> got.name, status |-> status.s] >>
         IN  entry \o PlayersFrom(svcs, i + 1)

get_all_players(svcs, raises) == IF raises THEN <<>> ELSE PlayersFrom(svcs, 1)

\* choose_best_player with one filter for both statuses: the first candidate
\* that is Playing or Paused
choose_best_player_firstActive(ps) ==
    LET IsActive(p) == p.status \in {"Playing", "Paused"}
        active_players == SelectSeq(ps, IsActive)
    IN  IF active_players # <<>>
        THEN [player |-> active_players[1].h, name |-> active_players[1].name]
        ELSE [player |-> None, name |-> None]

choose_best_player(ps) ==
    LET IsPlaying(p) == p.status = "Playing"
        IsPaused(p) == p.status = "Paused"
        playing_players == SelectSeq(ps, IsPlaying)
        paused_players == SelectSeq(ps, IsPaused)
    IN  IF playing_players # <<>>
        THEN [player |-> playing_players[1].h, name |-> playing_players[1].name]
        ELSE IF paused_players # <<>>
        THEN [player |-> paused_players[1].h, name |-> paused_players[1].name]
        ELSE [player |-> None, name |-> None]

\* dict.get(key, default) on the metadata dictionary
DictGet(metadata, key, default) ==
    IF key \in metadata.keys THEN metadata.val[key] ELSE default

\* bool(v) of a str or an int value
Truthy(v) == IF v.kind = "str" THEN v.s # <<>> ELSE v.s # <<"0">>

\* get_metadata_info without the test for empty metadata
get_metadata_info_noEmptyCheck(md, st) ==
    IF md = Raise \/ st = Raise THEN None
    ELSE IF st.s = "Stopped" THEN None
    ELSE LET artist_list == DictGet(md, "xesam:artist", [kind |-> "list", items |-> <<>>])
             artist == IF artist_list.kind \in {"list", "str"} /\ artist_list.items # <<>>
                       THEN artist_list.items[1]
                       ELSE <<>>
         IN  [kind |-> "info", artist |-> Str(artist),
              title |-> DictGet(md, "xesam:title", Str(<<>>)),
              album |-> DictGet(md, "xesam:album", Str(<<>>)), status |-> st.s]

\* get_metadata_info without the test of the status
get_metadata_info_noStopped(md, st) ==
    IF md = Raise \/ st = Raise THEN None
    ELSE IF md.keys = {} THEN None
    ELSE LET artist_list == DictGet(md, "xesam:artist", [kind |-> "list", items |-> <<>>])
             artist == IF artist_list.kind \in {"list", "str"} /\ artist_list.items # <<>>
                       THEN artist_list.items[1]
                       ELSE <<>>
         IN  [kind |-> "info", artist |-> Str(artist),
              title |-> DictGet(md, "xesam:title", Str(<<>>)),
              album |-> DictGet(md, "xesam:album", Str(<<>>)), status |-> st.s]

\* md: what reading player.Metadata gives (Raise or a dict);
\* st: what reading player.PlaybackStatus gives (Raise or a str)
get_metadata_info(md, st) ==
    IF md = Raise \/ st = Raise THEN None
    ELSE IF md.keys = {} \/ st.s = "Stopped" THEN None
    ELSE LET artist_list == DictGet(md, "xesam:artist", [kind |-> "list", items |-> <<>>])
             artist == IF artist_list.kind = "list" /\ artist_list.items # <<>>
                       THEN artist_list.items[1]
                       ELSE IF artist_list.kind = "str"
                       THEN artist_list.items[1]
                       ELSE <<>>
             title == DictGet(md, "xesam:title", Str(<<>>))
             album == DictGet(md, "xesam:album", Str(<<>>))
         IN  [kind |-> "info", artist |-> Str(artist), title |-> title,
              album |-> album, status |-> st.s]

Dash == <<" ", "-", " ">>
Ellipsis == "..."    \* the one character U+2026
UnknownTrack == <<"U","n","k","n","o","w","n"," ","T","r","a","c","k">>

\* the text of a str, the str() of anything else, as an f-string inserts it
Fmt(v) == v.s

\* format_display_text cutting at MAX_LENGTH instead of MAX_LENGTH - 1
format_display_text_keepMax(i) ==
    LET text == IF Truthy(i.artist) /\ Truthy(i.title)
                THEN Str(Fmt(i.artist) \o Dash \o Fmt(i.title))
                ELSE IF Truthy(i.title) THEN i.title
                ELSE IF Truthy(i.artist) THEN i.artist
                ELSE Str(UnknownTrack)
    IN  IF text.kind # "str" THEN Raise
        ELSE IF Len(text.s) > MAX_LENGTH
        THEN Str(SubSeq(text.s, 1, MAX_LENGTH) \o <<Ellipsis>>)
        ELSE text

\* the str returned, or Raise when len() is applied to a value without a length
format_display_text(i) ==
    LET text == IF Truthy(i.artist) /\ Truthy(i.title)
                THEN Str(Fmt(i.artist) \o Dash \o Fmt(i.title))
                ELSE IF Truthy(i.title) THEN i.title
                ELSE IF Truthy(i.artist) THEN i.artist
                ELSE Str(UnknownTrack)
    IN  IF text.kind # "str" THEN Raise
        ELSE IF Len(text.s) > MAX_LENGTH
        THEN Str(SubSeq(text.s, 1, MAX_LENGTH - 1) \o <<Ellipsis>>)
        ELSE text

\* get_player_icon looking the name up as it is, without lower()
get_player_icon_caseSensitive(player_name) ==
    IF player_name \in DOMAIN PLAYER_ICONS
    THEN PLAYER_ICONS[player_name]
    ELSE DEFAULT_ICON

get_player_icon(player_name) ==
    IF Lower(player_name) \in DOMAIN PLAYER_ICONS
    THEN PLAYER_ICONS[Lower(player_name)]
    ELSE DEFAULT_ICON

ClassPrefix == <<"p","l","a","y","e","r","-">>

EmptyObject == [k \in {} |-> <<>>]

\* one line of the tooltip: a fixed label followed by an inserted value
TooltipLine(label, value) == [label |-> label, value |-> value]

\* main, lines 178-198: the record handed to print_json, or Raise
BuildResult(i, player_name) ==
    LET text == format_display_text(i)
        icon == get_player_icon(player_name)
        tooltip == << TooltipLine("", Fmt(i.artist) \o Dash \o Fmt(i.title)) >>
                   \o (IF Truthy(i.album)
                       THEN << TooltipLine("Album: ", Fmt(i.album)) >> ELSE <<>>)
                   \o << TooltipLine("Status: ", i.status),
                          TooltipLine("Player: ", player_name) >>
        result == [text |-> text.s, tooltip |-> tooltip,
                   class |-> ClassPrefix \o Lower(player_name),
                   alt |-> player_name, percentage |-> 0]
    IN  IF text = Raise THEN Raise
        ELSE IF icon # DEFAULT_ICON
        THEN [k \in DOMAIN result \cup {"icon"} |->
                 IF k = "icon" THEN icon ELSE result[k]]
        ELSE result

-----------------------------------------------------------------------------
(* Reporter: the session bus and the players the model draws from *)

N_Spotify == MprisPrefix \o <<"S","p","o","t","i","f","y">>
N_instance == MprisPrefix \o <<"i","n","s","t","a","n","c","e","1","2","3">>
N_firefox_instance ==
    MprisPrefix \o S_firefox \o <<".","i","n","s","t","a","n","c","e","1","2","3">>
N_DBus == <<"o","r","g",".","f","r","e","e","d","e","s","k","t","o","p",".","D","B","u","s">>

PlayerNames == {N_Spotify, N_instance, N_firefox_instance}

\* a registered service: its status, or how reading it fails
ServiceStates == {"Playing", "Paused", "Stopped", "Unreachable", "StatusError"}

ServiceRecs == {[name |-> n, st |-> s] : n \in PlayerNames, s \in ServiceStates}

\* the bus driver itself, which every ListNames reply names and which is no player
BusDriver == [name |-> N_DBus, st |-> "StatusError"]

\* ListNames results: the bus driver, then up to MaxServices players; bus names
\* are unique
ServiceLists ==
    {<<BusDriver>> \o l : l \in
        {l \in UNION {[1..n -> ServiceRecs] : n \in 0..MaxServices} :
            \A i, j \in 1..Len(l) : l[i].name = l[j].name => i = j}}

Metadata(keys, a, t, al) ==
    [kind |-> "dict", keys |-> keys,
     val |-> [k \in keys |->
                CASE k = "xesam:artist" -> a
                  [] k = "xesam:title" -> t
                  [] k = "xesam:album" -> al
                  [] OTHER -> Str(<<"/","1">>)]]

ArtistFields ==
    {[kind |-> "list", items |-> <<>>],
     [kind |-> "list", items |-> << <<"A">>, <<"C">> >>],
     [kind |-> "str", items |-> << <<"A">> >>],
     [kind |-> "other", items |-> <<>>]}

TitleFields == {Str(<<>>), Str(<<"T">>), [kind |-> "int", s |-> <<"7">>]}

AlbumFields == {Str(<<"A","l">>)}

\* what reading player.Metadata can give: an exception, the empty dict, a dict
\* without any of the three keys, dicts with a title, with artist and title,
\* and one with all three
MetadataChoices ==
    {Raise}
    \cup {Metadata(ks, a, t, al) :
            ks \in {{}, {"xesam:title"}, {"xesam:artist", "xesam:title"}},
            a \in ArtistFields, t \in TitleFields, al \in AlbumFields}
    \cup {Metadata({"xesam:artist", "xesam:title", "xesam:album"},
                    [kind |-> "list", items |-> << <<"A">>, <<"C">> >>],
                    Str(<<"T">>), al) : al \in AlbumFields}
    \cup {Metadata({"mpris:trackid"}, Str(<<>>), Str(<<>>), Str(<<>>))}

\* what re-reading player.PlaybackStatus can give: the status read during the
\* enumeration, or, the player having stopped or gone since, "Stopped" or an
\* exception
RereadChoices(enumerated) == {Str(enumerated), Str("Stopped"), Raise}

-----------------------------------------------------------------------------
(* Reporter: one run of main(), statement by statement *)

ReporterInit ==
    /\ busOutcome \in {"ok", "ImportError", "Exception"}
    /\ listRaises \in BOOLEAN
    /\ services \in ServiceLists
    /\ busOutcome # "ok" => ~listRaises /\ services = <<BusDriver>>
    /\ listRaises => services = <<BusDriver>>
    /\ rpc = "get_bus"
    /\ ctx = "try"
    /\ players = <<>>
    /\ best = [player |-> None, name |-> None]
    /\ info = None
    /\ restatus = None
    /\ metaOutcome = "unread"
    /\ unexpected = FALSE
    /\ data = EmptyObject
    /\ out = <<>>
    /\ nFaults = 0
    /\ nInterrupts = 0

otherVarsR == <<selVars, fmtVars, fetcherVars>>

\* a call of print_json(d)
CallPrintJson(d) == data' = d /\ rpc' = "pj_dumps"

\* an exception leaves the statement being executed: main's try body hands it
\* to the matching except clause, an except clause lets it leave main()
Propagate(exc) ==
    IF ctx = "try"
    THEN /\ ctx' = "handler"
         /\ rpc' = IF exc = "KeyboardInterrupt" THEN "except_ki" ELSE "except_exc"
         /\ unexpected' = (unexpected \/ exc # "KeyboardInterrupt")
    ELSE /\ ctx' = ctx
         /\ rpc' = "raised"
         /\ unexpected' = unexpected

\* line 151-154
GetBus ==
    /\ rpc = "get_bus"
    /\ IF get_bus(busOutcome) = None
       THEN CallPrintJson(EmptyObject)
       ELSE rpc' = "get_all_players" /\ data' = data
    /\ UNCHANGED <<busOutcome, listRaises, services, ctx, players, best, info, restatus,
                   metaOutcome, unexpected, out, nFaults, nInterrupts, otherVarsR>>

\* line 157-161
GetAllPlayers ==
    /\ rpc = "get_all_players"
    /\ players' = get_all_players(services, listRaises)
    /\ IF players' = <<>>
       THEN CallPrintJson(EmptyObject)
       ELSE rpc' = "choose" /\ data' = data
    /\ UNCHANGED <<busOutcome, listRaises, services, ctx, best, info, restatus,
                   metaOutcome, unexpected, out, nFaults, nInterrupts, otherVarsR>>

\* line 164-168
ChooseBest ==
    /\ rpc = "choose"
    /\ best' = choose_best_player(players)
    /\ IF best'.player = None
       THEN CallPrintJson(EmptyObject)
       ELSE rpc' = "metadata" /\ data' = data
    /\ UNCHANGED <<busOutcome, listRaises, services, ctx, players, info, restatus,
                   metaOutcome, unexpected, out, nFaults, nInterrupts, otherVarsR>>

\* line 171-176
GetMetadata ==
    /\ rpc = "metadata"
    /\ \E md \in MetadataChoices,
          st \in RereadChoices(players[CHOOSE i \in 1..Len(players) :
                                          players[i].h = best.player].status) :
         /\ info' = get_metadata_info(md, st)
         /\ restatus' = IF md = Raise THEN None ELSE st
         /\ metaOutcome' = IF md = Raise THEN "raise"
                           ELSE IF md.keys = {} THEN "empty" ELSE "dict"
    /\ IF info' = None
       THEN CallPrintJson(EmptyObject)
       ELSE rpc' = "format" /\ data' = data
    /\ UNCHANGED <<busOutcome, listRaises, services, ctx, players, best,
                   unexpected, out, nFaults, nInterrupts, otherVarsR>>

\* line 179-201
FormatOutput ==
    /\ rpc = "format"
    /\ LET result == BuildResult(info, best.name)
       IN  IF result = Raise
           THEN Propagate("TypeError") /\ data' = data
           ELSE CallPrintJson(result) /\ UNCHANGED <<ctx, unexpected>>
    /\ UNCHANGED <<busOutcome, listRaises, services, players, best, info, restatus,
                   metaOutcome, out, nFaults, nInterrupts, otherVarsR>>

\* main's state that print_json and the except clauses leave alone
mainState == <<busOutcome, listRaises, services, players, best, info, restatus, metaOutcome>>

CanFault == nFaults < MaxFaults

\* line 214: json.dumps(data, ensure_ascii=False)
PjDumps ==
    /\ rpc = "pj_dumps"
    /\ rpc' = "pj_write"
    /\ UNCHANGED <<mainState, ctx, unexpected, data, out, nFaults, nInterrupts, otherVarsR>>

\* line 214 raises (a value json cannot serialize); {} always serializes
PjDumpsFault ==
    /\ rpc = "pj_dumps"
    /\ data # EmptyObject
    /\ CanFault
    /\ nFaults' = nFaults + 1
    /\ rpc' = "pj_fb_write"
    /\ UNCHANGED <<mainState, ctx, unexpected, data, out, nInterrupts, otherVarsR>>

\* line 215: sys.stdout.write(output + "\n")
PjWrite ==
    /\ rpc = "pj_write"
    /\ out' = Append(out, data)
    /\ rpc' = "pj_flush"
    /\ UNCHANGED <<mainState, ctx, unexpected, data, nFaults, nInterrupts, otherVarsR>>

\* line 215 raises: nothing is written
PjWriteFault ==
    /\ rpc = "pj_write"
    /\ CanFault
    /\ nFaults' = nFaults + 1
    /\ rpc' = "pj_fb_write"
    /\ UNCHANGED <<mainState, ctx, unexpected, data, out, nInterrupts, otherVarsR>>

\* line 216: sys.stdout.flush()
PjFlush ==
    /\ rpc = "pj_flush"
    /\ rpc' = "pj_return"
    /\ UNCHANGED <<mainState, ctx, unexpected, data, out, nFaults, nInterrupts, otherVarsR>>

\* line 216 raises, after line 215 has written the line
PjFlushFault ==
    /\ rpc = "pj_flush"
    /\ CanFault
    /\ nFaults' = nFaults + 1
    /\ rpc' = "pj_fb_write"
    /\ UNCHANGED <<mainState, ctx, unexpected, data, out, nInterrupts, otherVarsR>>

\* line 217-219: the except clause of print_json writes "{}\n"
PjFallbackWrite ==
    /\ rpc = "pj_fb_write"
    /\ out' = Append(out, EmptyObject)
    /\ rpc' = "pj_fb_flush"
    /\ UNCHANGED <<mainState, ctx, unexpected, data, nFaults, nInterrupts, otherVarsR>>

\* line 219 raises: the exception leaves print_json
PjFallbackWriteFault ==
    /\ rpc = "pj_fb_write"
    /\ CanFault
    /\ nFaults' = nFaults + 1
    /\ Propagate("OSError")
    /\ UNCHANGED <<mainState, data, out, nInterrupts, otherVarsR>>

\* line 220
PjFallbackFlush ==
    /\ rpc = "pj_fb_flush"
    /\ rpc' = "pj_return"
    /\ UNCHANGED <<mainState, ctx, unexpected, data, out, nFaults, nInterrupts, otherVarsR>>

\* line 220 raises: the exception leaves print_json
PjFallbackFlushFault ==
    /\ rpc = "pj_fb_flush"
    /\ CanFault
    /\ nFaults' = nFaults + 1
    /\ Propagate("OSError")
    /\ UNCHANGED <<mainState, data, out, nInterrupts, otherVarsR>>

\* print_json has returned: main returns (line 154, 161, 168, 176) or ends
MainReturn ==
    /\ rpc = "pj_return"
    /\ rpc' = "done"
    /\ UNCHANGED <<mainState, ctx, unexpected, data, out, nFaults, nInterrupts, otherVarsR>>

\* line 203-205
ExceptKeyboardInterrupt ==
    /\ rpc = "except_ki"
    /\ CallPrintJson(EmptyObject)
    /\ UNCHANGED <<mainState, ctx, unexpected, out, nFaults, nInterrupts, otherVarsR>>

\* line 206-209
ExceptException ==
    /\ rpc = "except_exc"
    /\ CallPrintJson(EmptyObject)
    /\ UNCHANGED <<mainState, ctx, unexpected, out, nFaults, nInterrupts, otherVarsR>>

\* a KeyboardInterrupt is delivered between two statements of main() or of a
\* function it calls; no "except Exception" clause catches it
Interrupt ==
    /\ rpc \notin {"done", "raised"}
    /\ nInterrupts < MaxInterrupts
    /\ nInterrupts' = nInterrupts + 1
    /\ Propagate("KeyboardInterrupt")
    /\ UNCHANGED <<mainState, data, out, nFaults, otherVarsR>>

ReporterNext ==
    \/ GetBus \/ GetAllPlayers \/ ChooseBest \/ GetMetadata \/ FormatOutput
    \/ PjDumps \/ PjDumpsFault \/ PjWrite \/ PjWriteFault \/ PjFlush \/ PjFlushFault
    \/ PjFallbackWrite \/ PjFallbackWriteFault \/ PjFallbackFlush \/ PjFallbackFlushFault
    \/ MainReturn \/ ExceptKeyboardInterrupt \/ ExceptException \/ Interrupt

-----------------------------------------------------------------------------
(* choose_best_player and format_display_text applied to drawn inputs *)

Pending == [kind |-> "pending"]

CandidateStatuses == {"Playing", "Paused", "Stopped", "Unknown"}

Candidates ==
    {[h |-> Proxy(n), name |-> LastSegment(n), status |-> s] :
        n \in {N_Spotify, N_instance}, s \in CandidateStatuses}

CandidateLists == UNION {[1..n -> Candidates] : n \in 0..MaxPlayers}

SelInit == selIn \in CandidateLists /\ selOut = Pending

Select ==
    /\ selOut = Pending
    /\ selOut' = choose_best_player(selIn)
    /\ UNCHANGED <<selIn, reporterVars, fmtVars, fetcherVars>>

Digits == <<"0","1","2","3","4","5","6","7","8","9">>

\* a string of n characters, no two neighbours alike
Pattern(n, from) == [i \in 1..n |-> IF from = "a" THEN LowerAlpha[(i % 26) + 1]
                                      ELSE Digits[(i % 10) + 1]]

ArtistLengths == {0, 1, 2, MAX_LENGTH - 22, MAX_LENGTH - 21, MAX_LENGTH - 1,
                  MAX_LENGTH, MAX_LENGTH + 1}
TitleLengths == {0, 1, MAX_LENGTH - 5, MAX_LENGTH - 4, MAX_LENGTH - 3, 18, 19, 20,
                 MAX_LENGTH - 1, MAX_LENGTH, MAX_LENGTH + 1, MAX_LENGTH + 5}

InfoInputs ==
    {[kind |-> "info", artist |-> Str(Pattern(la, "a")), title |-> Str(Pattern(lt, "0")),
      album |-> Str(<<>>), status |-> "Playing"] :
        la \in ArtistLengths, lt \in TitleLengths}

FmtInit == fmtIn \in InfoInputs /\ fmtOut = Pending

Format ==
    /\ fmtOut = Pending
    /\ fmtOut' = format_display_text(fmtIn)
    /\ UNCHANGED <<fmtIn, reporterVars, selVars, fetcherVars>>

-----------------------------------------------------------------------------
(* Fetcher: fetch_clash_config.py *)

Interval == 2    \* the job's period, in polls of the loop (time.sleep(1))
MaxDur == 3      \* longest download, in the same unit
MaxChunks == 2   \* longest response body, in chunks of chunk_size bytes

NoFile == [kind |-> "absent"]
FileOf(bytes) == [kind |-> "file", bytes |-> bytes]

NoBody == [kind |-> "nobody"]
BodyOf(bytes) == [kind |-> "body", bytes |-> bytes]

\* response bodies: up to MaxChunks chunks of one of two documents
Bodies == {[i \in 1..n |-> v] : n \in 0..MaxChunks, v \in {"x", "y"}}

\* what the network and the file system do during one attempt
\*   mk: os.makedirs succeeds; conn: requests.get returns a response;
\*   status: its HTTP status; body: its body, as the chunks iter_content yields;
\*   cut: the number of chunks received before the transport fails (-1: never);
\*   open: open(save_path, 'wb') succeeds
Responses ==
    {[mk |-> m, conn |-> FALSE, status |-> 0, body |-> <<>>, cut |-> -1, open |-> TRUE] :
        m \in BOOLEAN}
    \cup {[mk |-> TRUE, conn |-> TRUE, status |-> st, body |-> <<>>, cut |-> -1,
           open |-> TRUE] : st \in {404, 500}}
    \cup {r \in [mk : {TRUE}, conn : {TRUE}, status : {200}, body : Bodies,
                  cut : -1..MaxChunks - 1, open : BOOLEAN] : r.cut < Len(r.body)}

\* download_file without its second except clause
Handle_noCatchAll(exc) ==
    IF exc = "RequestException" THEN "fail_network" ELSE "uncaught"

\* the except clauses of download_file, lines 62-65: the line printed for an
\* exception of class exc, or "uncaught"
Handle(exc) ==
    IF exc = "RequestException" THEN "fail_network"
    ELSE IF exc = "Exception" THEN "fail_unknown"
    ELSE "uncaught"

\* requests.Response.raise_for_status: HTTPError for a 4xx or 5xx status
RaisesForStatus(status) == status >= 400 /\ status < 600

\* download_file opening the destination before raise_for_status()
download_file_openFirst(dirE, f, r) ==
    LET start == <<"start">>
        Fail(d, g, log, exc) ==
            [dir |-> d, file |-> g, log |-> Append(log, Handle(exc)),
             crashed |-> Handle(exc) = "uncaught", success |-> FALSE]
        log1 == IF dirE THEN start ELSE Append(start, "mkdir")
        received == IF r.cut >= 0 THEN SubSeq(r.body, 1, r.cut) ELSE r.body
    IN  IF ~dirE /\ ~r.mk THEN Fail(dirE, f, start, "Exception")
        ELSE IF ~r.conn THEN Fail(TRUE, f, log1, "RequestException")
        ELSE IF ~r.open THEN Fail(TRUE, f, log1, "Exception")
        ELSE IF RaisesForStatus(r.status)
        THEN Fail(TRUE, FileOf(<<>>), log1, "RequestException")
        ELSE IF r.cut >= 0 THEN Fail(TRUE, FileOf(received), log1, "RequestException")
        ELSE [dir |-> TRUE, file |-> FileOf(r.body), log |-> Append(log1, "success"),
              crashed |-> FALSE, success |-> TRUE]

\* one call of download_file(): the directory, the file and the lines printed
download_file(dirE, f, r) ==
    LET start == <<"start">>
        Fail(d, g, log, exc) ==
            [dir |-> d, file |-> g, log |-> Append(log, Handle(exc)),
             crashed |-> Handle(exc) = "uncaught", success |-> FALSE]
        log1 == IF dirE THEN start ELSE Append(start, "mkdir")
        received == IF r.cut >= 0 THEN SubSeq(r.body, 1, r.cut) ELSE r.body
    IN  IF ~dirE /\ ~r.mk THEN Fail(dirE, f, start, "Exception")
        ELSE IF ~r.conn THEN Fail(TRUE, f, log1, "RequestException")
        ELSE IF RaisesForStatus(r.status) THEN Fail(TRUE, f, log1, "RequestException")
        ELSE IF ~r.open THEN Fail(TRUE, f, log1, "Exception")
        ELSE IF r.cut >= 0 THEN Fail(TRUE, FileOf(received), log1, "RequestException")
        ELSE [dir |-> TRUE, file |-> FileOf(r.body), log |-> Append(log1, "success"),
              crashed |-> FALSE, success |-> TRUE]

FetcherInit ==
    /\ fpc = "register"
    /\ nextRun = 0
    /\ dirExists \in BOOLEAN
    /\ file \in {NoFile} \cup (IF dirExists THEN {FileOf(<<"o">>)} ELSE {})
    /\ prevFile = file
    /\ flog = <<>>
    /\ lastStatus = 0
    /\ lastGood = NoBody
    /\ sinceStart = 0
    /\ ran = FALSE

otherVarsF == <<reporterVars, selVars, fmtVars>>

Monus(a, b) == IF a >= b THEN a - b ELSE 0

\* the effect of download_file() under response r, taking dur units of time
Attempt(r, dur) ==
    LET res == download_file(dirExists, file, r)
    IN  /\ dirExists' = res.dir
        /\ prevFile' = file
        /\ file' = res.file
        /\ flog' = res.log
        /\ lastStatus' = IF r.conn /\ (dirExists \/ r.mk) THEN r.status ELSE 0
        /\ lastGood' = IF res.success THEN BodyOf(r.body) ELSE lastGood
        /\ sinceStart' = Min2(dur, Interval)

\* line 70: schedule.every(1).hour.do(download_file) sets next_run one period ahead
Register ==
    /\ fpc = "register"
    /\ nextRun' = Interval
    /\ fpc' = "first"
    /\ UNCHANGED <<dirExists, file, prevFile, flog, lastStatus, lastGood, sinceStart, ran,
                   otherVarsF>>

\* line 79: the direct call; the job's next_run is not touched
FirstDownload ==
    /\ fpc = "first"
    /\ \E r \in Responses, dur \in 0..MaxDur :
         /\ Attempt(r, dur)
         /\ nextRun' = Monus(nextRun, dur)
         /\ fpc' = IF download_file(dirExists, file, r).crashed
                   THEN "crashed" ELSE "run_pending"
    /\ UNCHANGED <<ran, otherVarsF>>

\* line 83, the job is due: run it, then next_run = now + period
RunPendingDue ==
    /\ fpc = "run_pending"
    /\ nextRun = 0
    /\ \E r \in Responses, dur \in 0..MaxDur :
         /\ Attempt(r, dur)
         /\ fpc' = IF download_file(dirExists, file, r).crashed
                   THEN "crashed" ELSE "sleep"
    /\ nextRun' = Interval
    /\ ran' = TRUE
    /\ UNCHANGED otherVarsF

\* line 83, the job is not due
RunPendingIdle ==
    /\ fpc = "run_pending"
    /\ nextRun > 0
    /\ ran' = FALSE
    /\ fpc' = "sleep"
    /\ UNCHANGED <<nextRun, dirExists, file, prevFile, flog, lastStatus, lastGood,
                   sinceStart, otherVarsF>>

\* line 84: time.sleep(1)
Sleep ==
    /\ fpc = "sleep"
    /\ nextRun' = Monus(nextRun, 1)
    /\ sinceStart' = Min2(sinceStart + 1, Interval)
    /\ fpc' = "run_pending"
    /\ UNCHANGED <<dirExists, file, prevFile, flog, lastStatus, lastGood, ran, otherVarsF>>

FetcherNext == Register \/ FirstDownload \/ RunPendingDue \/ RunPendingIdle \/ Sleep

-----------------------------------------------------------------------------
(* Specifications *)

ReporterIdle ==
    /\ busOutcome = "ok" /\ listRaises = FALSE /\ services = <<BusDriver>>
    /\ rpc = "done" /\ ctx = "try" /\ players = <<>>
    /\ best = [player |-> None, name |-> None] /\ info = None /\ restatus = None
    /\ metaOutcome = "unread" /\ unexpected = FALSE /\ data = EmptyObject
    /\ out = <<>> /\ nFaults = 0 /\ nInterrupts = 0

SelIdle == selIn = <<>> /\ selOut = Pending

FmtIdle == fmtIn = None /\ fmtOut = Pending

FetcherIdle ==
    /\ fpc = "idle" /\ nextRun = 0 /\ dirExists = FALSE /\ file = NoFile
    /\ prevFile = NoFile /\ flog = <<>> /\ lastStatus = 0 /\ lastGood = NoBody
    /\ sinceStart = 0 /\ ran = FALSE

ReporterStart == ReporterInit /\ SelIdle /\ FmtIdle /\ FetcherIdle
SelectStart == SelInit /\ ReporterIdle /\ FmtIdle /\ FetcherIdle
FormatStart == FmtInit /\ ReporterIdle /\ SelIdle /\ FetcherIdle
FetcherStart == FetcherInit /\ ReporterIdle /\ SelIdle /\ FmtIdle

\* one run of the Reporter's main()
ReporterSpec == ReporterStart /\ [][ReporterNext]_vars

\* choose_best_player on every candidate list within MaxPlayers
SelectSpec == SelectStart /\ [][Select]_vars

\* format_display_text on artists and titles around MAX_LENGTH
FormatSpec == FormatStart /\ [][Format]_vars

\* the Fetcher process
FetcherSpec == FetcherStart /\ [][FetcherNext]_vars

\* the Fetcher process when time passes and every download returns
FetcherFairSpec == FetcherSpec /\ WF_vars(FetcherNext)

-----------------------------------------------------------------------------
(* Properties of the Reporter *)

\* main() has returned, or an exception has left it
Terminal == rpc \in {"done", "raised"}

\* stdout accepted every write and flush, and no interruption was delivered
Healthy == nFaults = 0 /\ nInterrupts = 0

AllLinesEmpty == \A k \in 1..Len(out) : out[k] = EmptyObject

\* C1: a run of main() writes exactly one line to standard output (each line
\* written is a JSON object), whatever fails or interrupts it: never a second
\* line, and one line whenever main() returns. (The runs an exception leaves
\* main() on, with nothing written, are left aside here: stdout refused every
\* write, or an interruption arrived inside an except clause.)
C1_ExactlyOneLine == Len(out) <= 1 /\ (rpc = "done" => Len(out) = 1)

\* no registered name lies under the MPRIS prefix
NoRegisteredPlayers ==
    \A i \in 1..Len(services) : ~StartsWith(services[i].name, MprisPrefix)

\* get_all_players has run, called from main's try body
Enumerated ==
    /\ busOutcome = "ok"
    /\ ctx = "try"
    /\ rpc \notin {"get_bus", "get_all_players"}

\* no candidate is Playing or Paused
NoActiveCandidate ==
    \A i \in 1..Len(players) : players[i].status \notin {"Playing", "Paused"}

\* a stage before the output failed or yielded nothing
UpstreamFailed ==
    \/ busOutcome # "ok"
    \/ listRaises
    \/ NoRegisteredPlayers
    \/ NoActiveCandidate
    \/ metaOutcome \in {"raise", "empty"}
    \/ restatus = Raise

\* C2: when the bus is unavailable, no player endpoint is registered, listing
\* the names raises, no candidate is Playing or Paused, the metadata is empty
\* or unreadable, or an unexpected exception is raised in main, then main()
\* returns normally and its output is exactly one line, {}. Checked on the
\* runs whose only failures are those: stdout accepts what is written and no
\* interruption arrives (those runs are C1's). On every run, an upstream
\* failure leaves nothing but {} lines on stdout.
C2_FailureGivesEmptyObject ==
    /\ (Terminal /\ Healthy /\ (UpstreamFailed \/ unexpected))
           => (rpc = "done" /\ out = <<EmptyObject>>)
    /\ (Terminal /\ UpstreamFailed) => AllLinesEmpty

\* C2 witness: a TypeError raised while formatting reached main's except
\* clause and the run ended with the single line {}
C2_Witness ==
    /\ rpc = "done" /\ Healthy /\ unexpected
    /\ info # None
    /\ out = <<EmptyObject>>

\* C4: get_all_players returns, in ListNames order, every registered name under
\* the prefix whose proxy can be obtained and whose status can be read, each
\* with the proxy of that same service and its own status.
RECURSIVE ReadablePlayers(_, _)
ReadablePlayers(svcs, i) ==
    IF i > Len(svcs) THEN <<>>
    ELSE (IF StartsWith(svcs[i].name, MprisPrefix)
             /\ svcs[i].st \in {"Playing", "Paused", "Stopped"}
          THEN << [h |-> Proxy(svcs[i].name), status |-> svcs[i].st] >>
          ELSE <<>>) \o ReadablePlayers(svcs, i + 1)

C4_AllReadablePlayers ==
    (Enumerated /\ ~listRaises) =>
        LET want == ReadablePlayers(services, 1)
        IN  /\ Len(players) = Len(want)
            /\ \A i \in 1..Len(want) :
                 players[i].h = want[i].h /\ players[i].status = want[i].status

\* C9: a Stopped endpoint is never selected; when the status re-read by
\* get_metadata_info is Stopped, or the metadata is empty, no data is returned
\* and nothing but {} is written (exactly one line when stdout works and no
\* interruption arrives); the status line of an emitted tooltip never reads
\* Stopped.
C9_StoppedNeverReported ==
    /\ best.player # None =>
         \E i \in 1..Len(players) :
            /\ players[i].h = best.player
            /\ players[i].name = best.name
            /\ players[i].status \in {"Playing", "Paused"}
    /\ (restatus = Str("Stopped") \/ metaOutcome = "empty") =>
         /\ info = None
         /\ AllLinesEmpty
         /\ (Terminal /\ Healthy) => (rpc = "done" /\ out = <<EmptyObject>>)
    /\ \A k \in 1..Len(out) :
         out[k] # EmptyObject =>
            \A j \in 1..Len(out[k].tooltip) :
               out[k].tooltip[j].label = "Status: "
                   => out[k].tooltip[j].value # "Stopped"

\* C9 witness: the selected player had metadata but was Stopped when re-read
C9_Witness ==
    /\ rpc = "done" /\ Healthy
    /\ best.player # None
    /\ metaOutcome = "dict" /\ restatus = Str("Stopped")
    /\ out = <<EmptyObject>>

BaseKeys == {"text", "tooltip", "class", "alt", "percentage"}

\* C10: an emitted record has the keys text, tooltip, class, alt, percentage,
\* and icon exactly when the lowercased player name is in the icon table;
\* class is "player-" + the lowercased name, alt the name, percentage 0; with
\* artist "A" and title "T" the text is "A - T".
C10_RecordShape ==
    \A k \in 1..Len(out) :
       out[k] # EmptyObject =>
          /\ DOMAIN out[k] =
                BaseKeys \cup (IF Lower(best.name) \in DOMAIN PLAYER_ICONS
                               THEN {"icon"} ELSE {})
          /\ out[k].class = ClassPrefix \o Lower(best.name)
          /\ out[k].alt = best.name
          /\ out[k].percentage = 0
          /\ (info.artist = Str(<<"A">>) /\ info.title = Str(<<"T">>))
                => out[k].text = <<"A", " ", "-", " ", "T">>

\* C10 witness: Spotify, Playing, artist "A", title "T": one record, with icon
C10_Witness ==
    /\ rpc = "done"
    /\ Len(out) = 1 /\ out[1] # EmptyObject
    /\ info.status = "Playing"
    /\ out[1].alt = <<"S","p","o","t","i","f","y">>
    /\ out[1].class = ClassPrefix \o S_spotify
    /\ "icon" \in DOMAIN out[1]
    /\ out[1].text = <<"A", " ", "-", " ", "T">>

-----------------------------------------------------------------------------
(* Properties of choose_best_player and format_display_text *)

FirstWith(ps, status) ==
    LET at == {i \in 1..Len(ps) : ps[i].status = status}
    IN  IF at = {} THEN 0 ELSE CHOOSE i \in at : \A j \in at : i <= j

\* C3: the result is the first Playing candidate if there is one, else the
\* first Paused candidate if there is one, else no selection; a candidate of
\* any other status is never the result.
C3_FirstPlayingElsePaused ==
    selOut # Pending =>
       LET p == FirstWith(selIn, "Playing")
           q == FirstWith(selIn, "Paused")
       IN  IF p > 0 THEN selOut = [player |-> selIn[p].h, name |-> selIn[p].name]
           ELSE IF q > 0 THEN selOut = [player |-> selIn[q].h, name |-> selIn[q].name]
           ELSE selOut.player = None

\* C3 witness: Paused, then two different Playing candidates: the second
\* candidate is the result
C3_Witness ==
    /\ selOut # Pending
    /\ Len(selIn) = 3
    /\ selIn[1].status = "Paused"
    /\ selIn[2].status = "Playing" /\ selIn[3].status = "Playing"
    /\ selIn[1].h = selIn[3].h /\ selIn[2].h # selIn[3].h
    /\ selOut.player = selIn[2].h

\* the display string before truncation, as the claim words it
Untruncated(artist, title) ==
    IF artist # <<>> /\ title # <<>> THEN artist \o <<" ", "-", " ">> \o title
    ELSE IF title # <<>> THEN title
    ELSE IF artist # <<>> THEN artist
    ELSE UnknownTrack

\* C8: the result is the untruncated string when it has at most MAX_LENGTH
\* characters, else its first MAX_LENGTH - 1 characters followed by the
\* ellipsis, MAX_LENGTH characters in all; never empty, never longer.
C8_DisplayText ==
    fmtOut # Pending =>
       LET u == Untruncated(fmtIn.artist.s, fmtIn.title.s)
       IN  /\ fmtOut.kind = "str"
           /\ Len(u) <= MAX_LENGTH => fmtOut.s = u
           /\ Len(u) > MAX_LENGTH =>
                /\ Len(fmtOut.s) = MAX_LENGTH
                /\ \A i \in 1..MAX_LENGTH - 1 : fmtOut.s[i] = u[i]
                /\ fmtOut.s[MAX_LENGTH] = Ellipsis
           /\ Len(fmtOut.s) >= 1
           /\ Len(fmtOut.s) <= MAX_LENGTH

\* C8 witness: artist and title both present, one character too long together
C8_Witness ==
    /\ fmtOut # Pending
    /\ fmtIn.artist.s # <<>> /\ fmtIn.title.s # <<>>
    /\ Len(fmtIn.artist.s) + 3 + Len(fmtIn.title.s) = MAX_LENGTH + 1
    /\ Len(fmtOut.s) = MAX_LENGTH
    /\ fmtOut.s[MAX_LENGTH] = Ellipsis

-----------------------------------------------------------------------------
(* Properties of the Fetcher *)

FailureLines == {i \in 1..Len(flog) : flog[i] \in {"fail_network", "fail_unknown"}}

\* C5: after an attempt answered by a non-success HTTP status the destination
\* file is as it was before the attempt (absent or with the same bytes),
\* the attempt printed exactly one failure line, and the process goes on.
C5_HttpErrorLeavesFile ==
    RaisesForStatus(lastStatus) =>
        /\ file = prevFile
        /\ Cardinality(FailureLines) = 1
        /\ fpc \in {"run_pending", "sleep"}

\* C5 witness: a scheduled attempt got a 500 while a downloaded file existed
C5_Witness ==
    /\ fpc = "sleep" /\ ran
    /\ lastStatus = 500
    /\ lastGood # NoBody
    /\ file = FileOf(lastGood.bytes)
    /\ flog = <<"start", "fail_network">>

\* C6: once a fetch has succeeded, the destination file equals the response
\* body of the most recent successful fetch, whatever later attempts do.
C6_FileIsLastGoodBody == lastGood # NoBody => file = FileOf(lastGood.bytes)

====
